---- MODULE Spec2Model ----
(***************************************************************************)
(* State-machine model of sfepy/terms/terms_hyperelastic_base.py:          *)
(* HyperElasticBase (family-data cache, stress/tangent dispatch, the       *)
(* integration adapter, the evaluation shape) and DeformationGradientTerm. *)
(*                                                                         *)
(* Python objects are records carrying an identity (id), so that "the very *)
(* same object" and "an equal copy" are different things in the model.     *)
(* Python dictionaries are functions whose DOMAIN is the set of keys.      *)
(***************************************************************************)
EXTENDS Integers, Sequences, FiniteSets, TLC

(* ------------------------------ bounds --------------------------------- *)

\* number of term instances sharing the one field state
NTerms == 2
\* the solver advances the field state at most this many times
MaxIter == 1
\* compute_family_data invocations counted per key (probe saturation guard)
MaxCount == 2
\* evaluators calling get_family_data concurrently
NThreads == 2
\* largest space dimension
MaxDim == 3

Terms == 1..NTerms
Threads == 1..NThreads

(* --------------------------- input domains ----------------------------- *)

CacheNames == {"tl_common", "ul_common"}
Steps == {0, -1}
MapKeys == {"k1", "k2"}
Derivatives == {"None", "dt"}
Modes == {"weak", "el_avg", "qp", "bogus", "None"}
TermModes == {"strain", "stress", "None"}
DiffVars == {"None", "u"}
\* the fields every FamilyData bundle holds
FamilyDataFields == {"mtx_f", "det_f", "green_strain"}
\* a field some material laws require and a bundle may hold or lack
OptionalField == "tr_c"
\* the bundle a well-configured material law gets
AllFields == FamilyDataFields \cup {OptionalField}
\* the field sets compute_family_data can produce
FieldSets == {FamilyDataFields, AllFields}
\* the material-declared ordered list of required family-data field names
FamilyDataNames == <<"mtx_f", "det_f", "tr_c", "green_strain">>

\* get_data_shape(state): element and quadrature-point counts, dimension
ElCounts == {1, 10}
QpCounts == {1, 4}
Dims == 1..MaxDim
\* the integration-mode flags passed to integrate
Fmodes == {0, 1, 2, 3}
\* what the mapping's integrate returns: 0, or a non-zero failure status
VgStatuses == {0, 1, -1}
\* per-quadrature-point arrays handed to integrate
QpArrays == {[vals |-> "a", reduced |-> -1], [vals |-> "b", reduced |-> -1]}

\* the evaluation modes and term modes DeformationGradientTerm is asked for
DgModes == {"eval", "el_avg", "qp", "bogus", "None"}
DgTermModes == {"def_grad", "jacobian", "None"}

DataKeys == MapKeys \X Derivatives
Keys == CacheNames \X Steps \X DataKeys

(* ------------------------------ objects -------------------------------- *)

\* Python's None
NoneObj == [kind |-> "None", owner |-> <<>>, id |-> 0, at |-> 0, fields |-> {}]
\* a freshly allocated array / bundle, made at iterate "at" by owner (the term
\* that computed an array, the key a bundle was computed for); kind, owner and
\* id together are its identity; fields: the named fields a bundle holds
Obj(kind, owner, id, at, fields) ==
    [kind |-> kind, owner |-> owner, id |-> id, at |-> at, fields |-> fields]
\* id(): the identity of a new object is one no live object has; identities of
\* collected objects are used again
Fresh(kind, owner, live) ==
    LET taken == {o.id : o \in {x \in live : x.kind = kind /\ x.owner = owner}}
    IN  CHOOSE i \in 1..(Cardinality(taken) + 1) :
            i \notin taken /\ \A j \in 1..(i - 1) : j \in taken
\* attribute / named field of a FamilyData object
Field(fd, name) == [of |-> fd, name |-> name]
\* nm.array([0], ndmin=4, dtype=nm.float64)
ZeroPlaceholder == [kind |-> "array", shape |-> <<1, 1, 1, 1>>, fill |-> 0]

NoErr == [type |-> "None", msg |-> "", term |-> 0, value |-> ""]
Err(type, msg, term, value) ==
    [type |-> type, msg |-> msg, term |-> term, value |-> value]

(* ---------------------------- dictionaries ----------------------------- *)

EmptyDict == <<>>
\* an assignment d[k] = v where setdefault was meant
SetDefaultAlways(d, k, v) == [x \in DOMAIN d \cup {k} |-> IF x = k THEN v ELSE d[x]]

\* dict.setdefault(k, d): the dictionary afterwards
SetDefault(d, k, v) == IF k \in DOMAIN d THEN d ELSE d @@ (k :> v)
\* d[k] = v: the dictionary afterwards
DictSet(d, k, v) == [x \in DOMAIN d \cup {k} |-> IF x = k THEN v ELSE d[x]]

(* ------------------------------- state --------------------------------- *)

VARIABLES
    self,            \* per term instance: its attributes (fixed after setup)
    stress_cache,    \* per term instance: self.stress_cache
    evaluate_cache,  \* state.evaluate_cache: cache_name -> step -> data_key -> FamilyData
    iterate,         \* the solver iterate the field state's coefficients belong to
    n_computed,      \* probe: compute_family_data calls per key since the last reset
    first_fd,        \* probe: what the first call for a key returned since then
    last,            \* the call that ran last: arguments, outcome, caches before it
    prev,            \* what the caller of the call before it still holds
    thr,             \* concurrent evaluators: each one's place in get_family_data
    pure             \* the last call of a function that touches no cache

vars == <<self, stress_cache, evaluate_cache, iterate, n_computed, first_fd,
          last, prev, thr, pure>>

(* ------------------------- external collaborators ---------------------- *)

\* Term.get_mapping(state, return_key=True): the geometry mapping of the
\* term's region / integral and the key identifying it
get_mapping(s) == [vg |-> [mapping |-> s.map_key], key |-> s.map_key]

\* compute_family_data(state): a new FamilyData bundle derived from the field
\* state's current coefficients
compute_family_data(key, live, it, fields) ==
    Obj("FamilyData", key, Fresh("FamilyData", key, live), it, fields)

\* family_data.get(name, msg_if_none=_msg_missing_data)
fd_has(fd, name) == name \in fd.fields

(* ------------------- HyperElasticBase.get_family_data ------------------ *)

\* a lookup that never hits
InCacheNever(cache, data_key) == FALSE

\* "data_key in cache"
InCache(cache, data_key) == data_key \in DOMAIN cache

\* "cache[data_key] = out"
StoreEntry(cache, data_key, out) == DictSet(cache, data_key, out)

\* a data key that leaves the derivative flag out
DataKeyNoDerivative(s) == <<get_mapping(s).key, "None">>

\* data_key = key + (self.arg_derivatives[name],)
DataKey(s) == <<get_mapping(s).key, s.arg_derivatives>>

\* the two setdefault calls: the evaluate cache with the nested dictionaries
\* for cache_name and for the term's derivative step created when absent
WithSlots(ec, s, cache_name) ==
    LET ec1 == SetDefault(ec, cache_name, EmptyDict)
    IN  [ec1 EXCEPT ![cache_name] = SetDefault(@, s.arg_steps, EmptyDict)]

\* the whole method: the evaluate cache afterwards, the object returned, the
\* number of compute_family_data calls made, the key the call resolved to and
\* the identities of the objects it created
get_family_data(ec, s, cache_name, live, it, fields) ==
    LET ec2      == WithSlots(ec, s, cache_name)
        cache    == ec2[cache_name][s.arg_steps]
        data_key == DataKey(s)
        hit      == InCache(cache, data_key)
        key      == <<cache_name, s.arg_steps, data_key>>
        out      == IF hit THEN cache[data_key]
                    ELSE compute_family_data(key, live, it, fields)
    IN  [ec       |-> IF hit THEN ec2
                      ELSE [ec2 EXCEPT ![cache_name][s.arg_steps] =
                                           StoreEntry(@, data_key, out)],
         out      |-> out,
         computed |-> IF hit THEN 0 ELSE 1,
         key      |-> key,
         new      |-> IF hit THEN {} ELSE {out}]

(* ------------- HyperElasticBase.compute_stress / compute_tan_mod ------- *)

\* a lookup without msg_if_none: an absent field is passed on as None
FirstMissingNone(s, fd) == 0

\* the first name of family_data_names the bundle does not hold, 0 when none
FirstMissing(s, fd) ==
    LET bad == {i \in DOMAIN s.family_data_names :
                    ~fd_has(fd, s.family_data_names[i])}
    IN  IF bad = {} THEN 0 ELSE CHOOSE i \in bad : \A j \in bad : i <= j

\* fargs = [get(name, ...) for name in self.family_data_names]
Fargs(s, fd) ==
    [i \in DOMAIN s.family_data_names |-> Field(fd, s.family_data_names[i])]

\* out = nm.empty_like(green_strain); fargs; self.stress_function(out, mat, *fargs)
compute_stress(s, fd, live, it) ==
    LET m == FirstMissing(s, fd)
    IN  IF m # 0
        THEN [ok |-> FALSE, out |-> NoneObj, calls |-> 0, new |-> {},
              args |-> <<>>,
              err |-> Err("ValueError", "missing family data!", s.name,
                          s.family_data_names[m])]
        ELSE LET out == Obj("stress", <<s.name>>,
                            Fresh("stress", <<s.name>>, live), it, {})
             IN  [ok |-> TRUE, out |-> out, calls |-> 1, new |-> {out},
                  args |-> Fargs(s, fd), err |-> NoErr]

\* out = nm.empty(shape); fargs; self.tan_mod_function(out, mat, *fargs)
compute_tan_mod(s, fd, live, it) ==
    LET m == FirstMissing(s, fd)
    IN  IF m # 0
        THEN [ok |-> FALSE, out |-> NoneObj, calls |-> 0, new |-> {},
              args |-> <<>>,
              err |-> Err("ValueError", "missing family data!", s.name,
                          s.family_data_names[m])]
        ELSE LET out == Obj("tan_mod", <<s.name>>,
                            Fresh("tan_mod", <<s.name>>, live), it, {})
             IN  [ok |-> TRUE, out |-> out, calls |-> 1, new |-> {out},
                  args |-> Fargs(s, fd), err |-> NoErr]

(* ---------------------- HyperElasticBase.get_fargs --------------------- *)

NoRet == <<>>

\* an exception leaving get_fargs: nothing is returned, what was already
\* written (the evaluate cache) stays written
Raise(r, err) == [r EXCEPT !.outcome = "raised", !.err = err]

\* a residual pass that forgets to store the stress
StoreStressNot(old, stress) == old

\* a residual pass that fills the slot only while it is empty
StoreStressOnce(old, stress) == IF old = NoneObj THEN stress ELSE old

\* self.stress_cache = stress
StoreStress(old, stress) == stress

\* a tangent pass that never looks at the cached stress
StressIsNoneAlways(stress) == TRUE

\* "stress is None" of the tangent pass
StressIsNone(stress) == stress = NoneObj

\* the residual pass once compute_stress has run with result cs
ResidualResult(r, s, fd, vg, cs) ==
    IF ~cs.ok THEN Raise(r, cs.err)
    ELSE [r EXCEPT !.sc = StoreStress(@, cs.out),
                   !.n_stress = @ + cs.calls,
                   !.new = @ \cup cs.new,
                   !.outcome = "returned",
                   !.ret = <<"weak_function", cs.out, ZeroPlaceholder,
                             Field(fd, "mtx_f"), Field(fd, "det_f"), vg, 0,
                             s.hyperelastic_mode>>]

\* mode == 'weak', diff_var is None: the residual pass
weak_residual(r, s, fd, vg, live, it) ==
    ResidualResult(r, s, fd, vg, compute_stress(s, fd, live, it))

\* stress = self.stress_cache; if stress is None: stress = compute_stress(...)
TangentStress(sc, s, fd, live, it) ==
    IF StressIsNone(sc)
    THEN compute_stress(s, fd, live, it)
    ELSE [ok |-> TRUE, out |-> sc, calls |-> 0, new |-> {}, args |-> <<>>,
          err |-> NoErr]

\* a tangent pass that keeps the stress it had to recompute
TangentResultStoring(r, s, fd, vg, cs, ct) ==
    IF ~cs.ok THEN Raise(r, cs.err)
    ELSE IF ~ct.ok
    THEN Raise([r EXCEPT !.n_stress = @ + cs.calls], ct.err)
    ELSE [r EXCEPT !.sc = cs.out,
                   !.n_stress = @ + cs.calls,
                   !.n_tan = @ + ct.calls,
                   !.new = @ \cup cs.new \cup ct.new,
                   !.outcome = "returned",
                   !.ret = <<"weak_function", cs.out, ct.out,
                             Field(fd, "mtx_f"), Field(fd, "det_f"), vg, 1,
                             s.hyperelastic_mode>>]

\* the tangent pass once the stress (cs) and the tangent modulus (ct) are there
TangentResult(r, s, fd, vg, cs, ct) ==
    IF ~cs.ok THEN Raise(r, cs.err)
    ELSE IF ~ct.ok
    THEN Raise([r EXCEPT !.n_stress = @ + cs.calls], ct.err)
    ELSE [r EXCEPT !.n_stress = @ + cs.calls,
                   !.n_tan = @ + ct.calls,
                   !.new = @ \cup cs.new \cup ct.new,
                   !.outcome = "returned",
                   !.ret = <<"weak_function", cs.out, ct.out,
                             Field(fd, "mtx_f"), Field(fd, "det_f"), vg, 1,
                             s.hyperelastic_mode>>]

TangentWith(r, s, fd, vg, live, it, cs) ==
    TangentResult(r, s, fd, vg, cs,
                  compute_tan_mod(s, fd, live \cup cs.new, it))

\* mode == 'weak', diff_var set: the tangent pass
weak_tangent(r, s, fd, vg, live, it) ==
    TangentWith(r, s, fd, vg, live, it, TangentStress(r.sc, s, fd, live, it))

\* the two integration-mode flags exchanged
EvalFmodeSwapped(mode) == IF mode = "el_avg" THEN 2 ELSE 1

\* fmode = {'el_avg' : 1, 'qp' : 2}[mode]
EvalFmode(mode) == IF mode = "el_avg" THEN 1 ELSE 2

\* a stress evaluation that also fills the term's stress slot
EvalStressResultStoring(r, vg, mode, cs) ==
    IF ~cs.ok THEN Raise(r, cs.err)
    ELSE [r EXCEPT !.sc = cs.out,
                   !.n_stress = @ + cs.calls,
                   !.new = @ \cup cs.new,
                   !.outcome = "returned",
                   !.ret = <<"integrate", cs.out, vg, EvalFmode(mode)>>]

\* term_mode == 'stress' once compute_stress has run with result cs
EvalStressResult(r, vg, mode, cs) ==
    IF ~cs.ok THEN Raise(r, cs.err)
    ELSE [r EXCEPT !.n_stress = @ + cs.calls,
                   !.new = @ \cup cs.new,
                   !.outcome = "returned",
                   !.ret = <<"integrate", cs.out, vg, EvalFmode(mode)>>]

\* a dispatcher that takes every term mode but 'stress' for 'strain'
eval_qp_lenient(r, s, fd, vg, mode, term_mode, live, it) ==
    IF term_mode = "stress"
    THEN EvalStressResult(r, vg, mode, compute_stress(s, fd, live, it))
    ELSE [r EXCEPT !.outcome = "returned",
                   !.ret = <<"integrate", Field(fd, "green_strain"), vg,
                             EvalFmode(mode)>>]

\* a dispatcher that derives the strain output from the material law
eval_qp_material(r, s, fd, vg, mode, term_mode, live, it) ==
    IF term_mode \in {"strain", "stress"}
    THEN EvalStressResult(r, vg, mode, compute_stress(s, fd, live, it))
    ELSE Raise(r, Err("ValueError", "unsupported term mode", s.name, term_mode))

\* mode in ('el_avg', 'qp')
eval_qp(r, s, fd, vg, mode, term_mode, live, it) ==
    IF term_mode = "strain"
    THEN [r EXCEPT !.outcome = "returned",
                   !.ret = <<"integrate", Field(fd, "green_strain"), vg,
                             EvalFmode(mode)>>]
    ELSE IF term_mode = "stress"
    THEN EvalStressResult(r, vg, mode, compute_stress(s, fd, live, it))
    ELSE Raise(r, Err("ValueError", "unsupported term mode", s.name, term_mode))

\* fd = self.get_family_data(state, self.fd_cache_name, self.family_data_names)
FargsFamilyData(ec, s, live, it, fields) ==
    get_family_data(ec, s, s.fd_cache_name, live, it, fields)

\* the branches of get_fargs on a family-data lookup g already made
Dispatch(g, sc, s, mode, term_mode, diff_var, live, it) ==
    LET vg == get_mapping(s).vg
        r  == [ec |-> g.ec, sc |-> sc, outcome |-> "none", err |-> NoErr,
               ret |-> NoRet, fd |-> g.out, key |-> g.key, n_fd |-> g.computed,
               n_stress |-> 0, n_tan |-> 0, new |-> g.new]
    IN  IF mode = "weak"
        THEN IF diff_var = "None"
             THEN weak_residual(r, s, g.out, vg, live \cup g.new, it)
             ELSE weak_tangent(r, s, g.out, vg, live \cup g.new, it)
        ELSE IF mode \in {"el_avg", "qp"}
        THEN eval_qp(r, s, g.out, vg, mode, term_mode, live \cup g.new, it)
        ELSE Raise(r, Err("ValueError", "unsupported evaluation mode", s.name,
                          mode))

\* the whole method. ec: state.evaluate_cache and sc: self.stress_cache before
\* the call; the result holds both after it, what was returned or raised and
\* how often each collaborator was invoked
get_fargs(ec, sc, s, mode, term_mode, diff_var, live, it, fields) ==
    Dispatch(FargsFamilyData(ec, s, live, it, fields), sc, s, mode, term_mode,
             diff_var, live, it)

(* ------------------------------ the machine ---------------------------- *)

\* a term instance after Term.__init__ and setup: its class attributes and
\* the per-argument step / derivative of its state argument
TermAttrs(t, c, st, d, k) ==
    [name              |-> t,
     fd_cache_name     |-> c,
     arg_steps         |-> st,
     arg_derivatives   |-> d,
     map_key           |-> k,
     family_data_names |-> FamilyDataNames,
     hyperelastic_mode |-> IF c = "tl_common" THEN 0 ELSE 1]

\* the terms of one total-Lagrangian material: all evaluate the same state
\* over the same region, so all resolve to the same family-data key
TermSetups == {[t \in Terms |-> TermAttrs(t, "tl_common", 0, "None", "k1")]}

\* term 1 as above; every other term with the same step, derivative and
\* mapping key or with any others (the cache name is an argument of
\* get_family_data, not read from the term)
CacheSetups ==
    {[t \in Terms |->
         IF t = 1 THEN TermAttrs(t, "tl_common", 0, "None", "k1")
         ELSE TermAttrs(t, "tl_common", g[t][1], g[t][2], g[t][3])] :
        g \in [Terms -> Steps \X Derivatives \X MapKeys]}

NoKey == <<"", 0, <<"", "">>>>

NoCall ==
    [op |-> "none", term |-> 0, iter |-> 0, mode |-> "", term_mode |-> "",
     diff_var |-> "", cache_name |-> "", key |-> NoKey, outcome |-> "none",
     err |-> NoErr, ret |-> NoRet, fd |-> NoneObj, n_fd |-> 0, n_stress |-> 0,
     n_tan |-> 0, new |-> {}, pre_sc |-> NoneObj, pre_ec |-> EmptyDict]

NoResidual ==
    [residual |-> FALSE, term |-> 0, stress |-> NoneObj, n_stress |-> 0]

\* call c was a residual pass of term t that returned
IsResidual(c, t) ==
    /\ c.op = "get_fargs" /\ c.term = t /\ c.mode = "weak"
    /\ c.diff_var = "None" /\ c.outcome = "returned"

\* call c was a tangent pass of term t that returned
IsTangent(c, t) ==
    /\ c.op = "get_fargs" /\ c.term = t /\ c.mode = "weak"
    /\ c.diff_var # "None" /\ c.outcome = "returned"

\* a residual pass that returned is remembered with the stress it returned and
\* the stress-function calls it made; of any other call, only that it was none
Summary(c) ==
    IF \E t \in Terms : IsResidual(c, t)
    THEN [residual |-> TRUE, term |-> c.term, stress |-> c.ret[2],
          n_stress |-> c.n_stress]
    ELSE NoResidual

\* the objects the evaluate cache holds
EcObjs(ec) ==
    UNION {UNION {{ec[c][st][k] : k \in DOMAIN ec[c][st]} : st \in DOMAIN ec[c]} :
              c \in DOMAIN ec}

\* all live objects: those the caches hold, those the callers of the last two
\* calls and the running evaluators hold and those the probe holds
Live ==
    EcObjs(evaluate_cache) \cup {stress_cache[t] : t \in Terms}
        \cup last.new \cup {last.fd, prev.stress}
        \cup {first_fd[k] : k \in DOMAIN first_fd}
        \cup {thr[th].out : th \in DOMAIN thr}

\* the probe: compute_family_data calls counted per key
Count(n, key) == IF key \in DOMAIN n THEN n[key] ELSE 0
Counted(n, key, calls) ==
    IF calls = 0 THEN n ELSE DictSet(n, key, Count(n, key) + calls)

\* the term's family data is in the evaluate cache: the bundle
\* compute_family_data would produce is then of no consequence
Cached(ec, s, cache_name) ==
    /\ cache_name \in DOMAIN ec
    /\ s.arg_steps \in DOMAIN ec[cache_name]
    /\ InCache(ec[cache_name][s.arg_steps], DataKey(s))

\* no evaluator runs concurrently
NoThreads == <<>>
NoPure == [fn |-> "none", args |-> <<>>, out |-> <<>>]

\* HyperElasticBase.__init__: self.stress_cache = None; the field state starts
\* with an empty evaluate cache
InitWith(setups) ==
    /\ self \in setups
    /\ stress_cache = [t \in Terms |-> NoneObj]
    /\ evaluate_cache = EmptyDict
    /\ iterate = 0
    /\ n_computed = EmptyDict
    /\ first_fd = EmptyDict
    /\ last = NoCall
    /\ prev = NoResidual
    /\ thr = NoThreads
    /\ pure = NoPure

Init == InitWith(TermSetups)

\* a direct call term.get_family_data(state, cache_name, data_names)
GetFamilyData(t, cache_name, fields, live) ==
    /\ fields # AllFields => ~Cached(evaluate_cache, self[t], cache_name)
    /\ \E g \in {get_family_data(evaluate_cache, self[t], cache_name, live,
                                 iterate, fields)} :
        /\ Count(n_computed, g.key) + g.computed <= MaxCount
        /\ evaluate_cache' = g.ec
        /\ n_computed' = Counted(n_computed, g.key, g.computed)
        /\ first_fd' = SetDefault(first_fd, g.key, g.out)
        /\ last' = [NoCall EXCEPT !.op = "get_family_data", !.term = t,
                                  !.iter = iterate, !.cache_name = cache_name,
                                  !.key = g.key, !.outcome = "returned",
                                  !.fd = g.out, !.n_fd = g.computed,
                                  !.new = g.new,
                                  !.pre_sc = stress_cache[t],
                                  !.pre_ec = evaluate_cache]
        /\ prev' = Summary(last)
        /\ UNCHANGED <<self, stress_cache, iterate, thr, pure>>

\* a call term.get_fargs(mat, virtual, state, mode, term_mode, diff_var)
GetFargs(t, mode, term_mode, diff_var, fields, live) ==
    /\ fields # AllFields =>
           ~Cached(evaluate_cache, self[t], self[t].fd_cache_name)
    /\ diff_var # "None" => mode = "weak"
    /\ \E r \in {get_fargs(evaluate_cache, stress_cache[t], self[t], mode,
                           term_mode, diff_var, live, iterate, fields)} :
        /\ Count(n_computed, r.key) + r.n_fd <= MaxCount
        /\ evaluate_cache' = r.ec
        /\ stress_cache' = [stress_cache EXCEPT ![t] = r.sc]
        /\ n_computed' = Counted(n_computed, r.key, r.n_fd)
        /\ first_fd' = SetDefault(first_fd, r.key, r.fd)
        /\ last' = [NoCall EXCEPT !.op = "get_fargs", !.term = t,
                                  !.iter = iterate, !.mode = mode,
                                  !.term_mode = term_mode,
                                  !.diff_var = diff_var,
                                  !.cache_name = self[t].fd_cache_name,
                                  !.key = r.key, !.outcome = r.outcome,
                                  !.err = r.err, !.ret = r.ret, !.fd = r.fd,
                                  !.n_fd = r.n_fd, !.n_stress = r.n_stress,
                                  !.n_tan = r.n_tan, !.new = r.new,
                                  !.pre_sc = stress_cache[t],
                                  !.pre_ec = evaluate_cache]
        /\ prev' = Summary(last)
        /\ UNCHANGED <<self, iterate, thr, pure>>

\* the solver advances the field state to its next iterate; the caller may or
\* may not reset state.evaluate_cache when it does. No term is told.
AdvanceIterate(reset) ==
    /\ iterate < MaxIter
    /\ iterate' = iterate + 1
    /\ evaluate_cache' = IF reset THEN EmptyDict ELSE evaluate_cache
    /\ n_computed' = IF reset THEN EmptyDict ELSE n_computed
    /\ first_fd' = IF reset THEN EmptyDict ELSE first_fd
    /\ last' = [NoCall EXCEPT !.op = "advance", !.iter = iterate + 1,
                              !.outcome = IF reset THEN "reset" ELSE "kept",
                              !.pre_ec = evaluate_cache]
    /\ prev' = Summary(last)
    /\ UNCHANGED <<self, stress_cache, thr, pure>>

\* terms evaluated one after the other by the assembler, between solver steps
Next ==
    \/ \E live \in {Live}, t \in Terms, f \in FieldSets :
           GetFamilyData(t, self[t].fd_cache_name, f, live)
    \/ \E live \in {Live}, t \in Terms, m \in Modes, tm \in TermModes,
          dv \in DiffVars, f \in FieldSets : GetFargs(t, m, tm, dv, f, live)
    \/ \E reset \in BOOLEAN : AdvanceIterate(reset)

Spec == Init /\ [][Next]_vars

\* the family-data cache alone: terms with any keys asking for any cache
InitCache == InitWith(CacheSetups)

NextCache ==
    \/ \E live \in {Live}, t \in Terms, c \in CacheNames, f \in FieldSets :
           GetFamilyData(t, c, f, live)
    \/ \E reset \in BOOLEAN : AdvanceIterate(reset)

SpecCache == InitCache /\ [][NextCache]_vars

(* ------------------ get_family_data, run concurrently ------------------ *)

IdleThread ==
    [pc |-> "idle", term |-> 0, cache_name |-> "", key |-> NoKey,
     out |-> NoneObj, computed |-> 0]

InitConc ==
    /\ self \in TermSetups
    /\ stress_cache = [t \in Terms |-> NoneObj]
    /\ evaluate_cache = EmptyDict
    /\ iterate = 0
    /\ n_computed = EmptyDict
    /\ first_fd = EmptyDict
    /\ last = NoCall
    /\ prev = NoResidual
    /\ thr = [th \in Threads |-> IdleThread]
    /\ pure = NoPure

\* lines 55-62: an evaluator enters get_family_data for term t; the two
\* setdefault calls and the key
TEnter(th, t) ==
    /\ thr[th].pc = "idle"
    /\ evaluate_cache' = WithSlots(evaluate_cache, self[t], self[t].fd_cache_name)
    /\ thr' = [thr EXCEPT ![th] =
                  [IdleThread EXCEPT !.pc = "test", !.term = t,
                                     !.cache_name = self[t].fd_cache_name,
                                     !.key = <<self[t].fd_cache_name,
                                               self[t].arg_steps,
                                               DataKey(self[t])>>]]
    /\ UNCHANGED <<self, stress_cache, iterate, n_computed, first_fd, last,
                   prev, pure>>

\* line 64-65: "if data_key in cache: out = cache[data_key]"
TTest(th) ==
    /\ thr[th].pc = "test"
    /\ LET k     == thr[th].key
           cache == evaluate_cache[k[1]][k[2]]
       IN  thr' = [thr EXCEPT ![th] =
                      IF InCache(cache, k[3])
                      THEN [@ EXCEPT !.pc = "return", !.out = cache[k[3]]]
                      ELSE [@ EXCEPT !.pc = "compute"]]
    /\ UNCHANGED <<self, stress_cache, evaluate_cache, iterate, n_computed,
                   first_fd, last, prev, pure>>

\* line 68: "out = self.compute_family_data(state)"
TCompute(th, fields, live) ==
    /\ thr[th].pc = "compute"
    /\ thr' = [thr EXCEPT ![th] =
                  [@ EXCEPT !.pc = "store", !.computed = 1,
                            !.out = compute_family_data(thr[th].key, live,
                                                        iterate, fields)]]
    /\ n_computed' = Counted(n_computed, thr[th].key, 1)
    /\ UNCHANGED <<self, stress_cache, evaluate_cache, iterate, first_fd, last,
                   prev, pure>>

\* line 69: "cache[data_key] = out"
TStore(th) ==
    /\ thr[th].pc = "store"
    /\ LET k == thr[th].key
       IN  evaluate_cache' =
               [evaluate_cache EXCEPT ![k[1]][k[2]] =
                    StoreEntry(@, k[3], thr[th].out)]
    /\ thr' = [thr EXCEPT ![th] = [@ EXCEPT !.pc = "return"]]
    /\ UNCHANGED <<self, stress_cache, iterate, n_computed, first_fd, last,
                   prev, pure>>

\* line 71: "return out"
TReturn(th) ==
    /\ thr[th].pc = "return"
    /\ thr' = [thr EXCEPT ![th] = [@ EXCEPT !.pc = "done"]]
    /\ first_fd' = SetDefault(first_fd, thr[th].key, thr[th].out)
    /\ UNCHANGED <<self, stress_cache, evaluate_cache, iterate, n_computed,
                   last, prev, pure>>

NextConc ==
    \/ \E th \in Threads, t \in Terms : TEnter(th, t)
    \/ \E th \in Threads : TTest(th)
    \/ \E live \in {Live}, th \in Threads, f \in FieldSets : TCompute(th, f, live)
    \/ \E th \in Threads : TStore(th)
    \/ \E th \in Threads : TReturn(th)

(* -------------- functions that read and write no cache ----------------- *)

\* a shape rule that takes only 'el_avg' for integrated
get_eval_shape_el_avg(mode, term_mode, diff_var, n_el, n_qp, dim, dtype) ==
    [shape |-> <<n_el, IF mode = "el_avg" THEN 1 ELSE n_qp,
                 (dim * (dim + 1)) \div 2, 1>>,
     dtype |-> dtype]

\* HyperElasticBase.get_eval_shape; (n_el, n_qp, dim, ...) is what
\* get_data_shape(state) gives, dtype is state.dtype
get_eval_shape(mode, term_mode, diff_var, n_el, n_qp, dim, dtype) ==
    [shape |-> <<n_el, IF mode # "qp" THEN 1 ELSE n_qp,
                 (dim * (dim + 1)) \div 2, 1>>,
     dtype |-> dtype]

\* vg.integrate(out, val_qp, fmode): the reduction written to out
VgIntegrate(val_qp, fmode) == [val_qp EXCEPT !.reduced = fmode]

\* an adapter that swallows the mapping's status
integrate_swallow(out, val_qp, vg_status, fmode) ==
    IF fmode = 2
    THEN [out |-> val_qp, status |-> 0, vg_calls |-> <<>>]
    ELSE [out |-> VgIntegrate(val_qp, fmode), status |-> 0,
          vg_calls |-> <<fmode>>]

\* HyperElasticBase.integrate(out, val_qp, vg, fmode); vg_status is what
\* vg.integrate returns when called. The result: the output buffer, the
\* status returned and the fmode of every vg.integrate call made
integrate(out, val_qp, vg_status, fmode) ==
    IF fmode = 2
    THEN [out |-> val_qp, status |-> 0, vg_calls |-> <<>>]
    ELSE [out |-> VgIntegrate(val_qp, fmode), status |-> vg_status,
          vg_calls |-> <<fmode>>]

EmptyBuffer == [vals |-> "", reduced |-> -1]

EvalShape(mode, term_mode, diff_var, n_el, n_qp, dim) ==
    /\ pure' = [fn   |-> "get_eval_shape",
                args |-> <<mode, term_mode, diff_var, n_el, n_qp, dim>>,
                out  |-> get_eval_shape(mode, term_mode, diff_var, n_el, n_qp,
                                        dim, "float64")]
    /\ UNCHANGED <<self, stress_cache, evaluate_cache, iterate, n_computed,
                   first_fd, last, prev, thr>>

Integrate(val_qp, vg_status, fmode) ==
    /\ pure' = [fn   |-> "integrate",
                args |-> <<val_qp, vg_status, fmode>>,
                out  |-> integrate(EmptyBuffer, val_qp, vg_status, fmode)]
    /\ UNCHANGED <<self, stress_cache, evaluate_cache, iterate, n_computed,
                   first_fd, last, prev, thr>>

(* ----------------------- DeformationGradientTerm ------------------------ *)

\* a lookup whose default is the flag of 'eval'
DgFmodeDefaultEval(mode) ==
    IF mode = "el_avg" THEN 1 ELSE IF mode = "qp" THEN 2 ELSE 0

\* fmode = {'eval' : 0, 'el_avg' : 1, 'qp' : 2}.get(mode, 1)
DgFmode(mode) ==
    IF mode = "eval" THEN 0
    ELSE IF mode = "el_avg" THEN 1
    ELSE IF mode = "qp" THEN 2
    ELSE 1

\* DeformationGradientTerm.get_fargs: vec, vg, ap.econn, term_mode, fmode
dg_get_fargs(vg, mode, term_mode) ==
    <<"vec", vg, "econn", term_mode, DgFmode(mode)>>

\* a shape rule that declares the full tensor for every term mode
dg_get_eval_shape_full(mode, term_mode, n_el, n_qp, dim, dtype) ==
    [shape |-> <<n_el, IF mode # "qp" THEN 1 ELSE n_qp, dim, dim>>,
     dtype |-> dtype]

\* DeformationGradientTerm.get_eval_shape
dg_get_eval_shape(mode, term_mode, n_el, n_qp, dim, dtype) ==
    LET n_qp1 == IF mode # "qp" THEN 1 ELSE n_qp
    IN  IF term_mode = "jacobian"
        THEN [shape |-> <<n_el, n_qp1, 1, 1>>, dtype |-> dtype]
        ELSE [shape |-> <<n_el, n_qp1, dim, dim>>, dtype |-> dtype]

\* terms.dq_def_grad(out_qp, vec, vg, econn, mode): F (mode 0) or J (mode 1)
\* in every quadrature point, written to a buffer of the given shape
dq_def_grad(shape, mode) ==
    [quantity |-> IF mode = 1 THEN "J" ELSE "F", shape |-> shape, reduced |-> -1]

\* out[:] = out_qp: numpy copies when out_qp has or broadcasts to out's shape
CanAssign(out_shape, qp_shape) ==
    \A i \in 1..4 : qp_shape[i] = out_shape[i] \/ qp_shape[i] = 1

\* DeformationGradientTerm.function(out, vec, vg, econn, term_mode, fmode);
\* out_shape is out.shape, vg_status what vg.integrate returns when called
dg_function(out_shape, vg, term_mode, fmode, vg_status) ==
    LET d      == IF term_mode = "jacobian" THEN 1 ELSE vg.dim
        mode   == IF term_mode = "jacobian" THEN 1 ELSE 0
        out_qp == dq_def_grad(<<out_shape[1], vg.n_qp, d, d>>, mode)
    IN  IF fmode = 2
        THEN IF CanAssign(out_shape, out_qp.shape)
             THEN [d |-> d, out_qp |-> out_qp,
                   out |-> [out_qp EXCEPT !.shape = out_shape],
                   raised |-> FALSE, status |-> 0, vg_calls |-> <<>>]
             ELSE [d |-> d, out_qp |-> out_qp, out |-> EmptyBuffer,
                   raised |-> TRUE, status |-> 0, vg_calls |-> <<>>]
        ELSE [d |-> d, out_qp |-> out_qp,
              out |-> [out_qp EXCEPT !.shape = out_shape, !.reduced = fmode],
              raised |-> FALSE, status |-> vg_status, vg_calls |-> <<fmode>>]

\* one evaluation of the term: the output buffer is allocated with the shape
\* get_eval_shape declares, then function runs on what get_fargs returns
DgEvaluate(mode, term_mode, n_el, n_qp, dim, vg_status) ==
    /\ \E vg \in {[dim |-> dim, n_qp |-> n_qp]} :
       \E sh \in {dg_get_eval_shape(mode, term_mode, n_el, n_qp, dim,
                                      "float64")} :
       \E fa \in {dg_get_fargs(vg, mode, term_mode)} :
           pure' = [fn   |-> "ev_def_grad",
                    args |-> <<mode, term_mode, n_el, n_qp, dim, vg_status>>,
                    out  |-> [shape |-> sh.shape, fargs |-> fa,
                              res   |-> dg_function(sh.shape, fa[2], fa[4],
                                                    fa[5], vg_status)]]
    /\ UNCHANGED <<self, stress_cache, evaluate_cache, iterate, n_computed,
                   first_fd, last, prev, thr>>

NextPure ==
    \/ \E m \in Modes, tm \in TermModes, dv \in DiffVars, n_el \in ElCounts,
          n_qp \in QpCounts, dim \in Dims : EvalShape(m, tm, dv, n_el, n_qp, dim)
    \/ \E v \in QpArrays, st \in VgStatuses, fm \in Fmodes : Integrate(v, st, fm)
    \/ \E m \in DgModes, tm \in DgTermModes, n_el \in ElCounts,
          n_qp \in QpCounts, dim \in Dims, st \in VgStatuses :
           DgEvaluate(m, tm, n_el, n_qp, dim, st)

SpecPure == Init /\ [][NextPure]_vars

SpecConc == InitConc /\ [][NextConc]_vars

(* ======================================================================= *)
(*                               the claims                                *)
(* ======================================================================= *)

\* the call that ran last was get_fargs
IsFargs(c) == c.op = "get_fargs"

\* the (mode, term_mode) combinations get_fargs evaluates
Supported(mode, term_mode) ==
    \/ mode = "weak"
    \/ mode \in {"el_avg", "qp"} /\ term_mode \in {"strain", "stress"}

(* C1: between two resets of state.evaluate_cache, every get_family_data    *)
(* call returns the object the first call for the same (cache_name, step,   *)
(* data_key) returned, compute_family_data has run exactly once for that    *)
(* key, and it ran in the first call only.                                  *)
C1_CacheIdempotent ==
    last.op = "get_family_data" =>
        /\ last.key \in DOMAIN first_fd
        /\ last.fd = first_fd[last.key]
        /\ Count(n_computed, last.key) = 1
        /\ last.n_fd = (IF Cached(last.pre_ec, self[last.term], last.cache_name)
                        THEN 0 ELSE 1)
        /\ Cached(last.pre_ec, self[last.term], last.cache_name) =>
               last.fd = last.pre_ec[last.key[1]][last.key[2]][last.key[3]]

\* a second call for a key: a hit
C1_Witness ==
    /\ last.op = "get_family_data"
    /\ last.n_fd = 0
    /\ Cached(last.pre_ec, self[last.term], last.cache_name)

(* C2: a tangent pass that runs right after a residual pass of the same     *)
(* term (no call and no solver step between them) returns the stress object *)
(* the residual pass returned and stored, and the stress function ran once  *)
(* in the two calls together.                                               *)
C2_StressReuse ==
    \A t \in Terms :
        (IsTangent(last, t) /\ prev.residual /\ prev.term = t) =>
            /\ prev.n_stress + last.n_stress = 1
            /\ last.ret[2] = prev.stress
            /\ last.pre_sc = prev.stress
            /\ stress_cache[t] = prev.stress

C2_Witness ==
    /\ IsTangent(last, 1) /\ prev.residual /\ prev.term = 1
    /\ last.ret[2] = prev.stress

(* C3: the stress a tangent pass returns was computed at the iterate at     *)
(* which the tangent pass runs.                                             *)
C3_NoStaleStress ==
    \A t \in Terms : IsTangent(last, t) => last.ret[2].at = last.iter

(* C4: get_fargs with a mode other than 'weak', 'el_avg', 'qp' raises the    *)
(* unsupported-evaluation-mode error and leaves the evaluate cache and the  *)
(* term's stress cache as they were before the call.                        *)
C4_BogusMutatesNothing ==
    (IsFargs(last) /\ last.mode \notin {"weak", "el_avg", "qp"}) =>
        /\ last.outcome = "raised"
        /\ last.err.msg = "unsupported evaluation mode"
        /\ evaluate_cache = last.pre_ec
        /\ stress_cache[last.term] = last.pre_sc

(* C5: a tangent pass that returns has run the tangent-modulus function     *)
(* once, has run the stress function once if the stress cache was empty and *)
(* not at all otherwise, and returns weak_function, the stress, the tangent *)
(* modulus, fd.mtx_f, fd.det_f, the mapping, fmode 1 and the term's         *)
(* formulation flag, in this order.                                         *)
C5_TangentPass ==
    \A t \in Terms :
        IsTangent(last, t) =>
            /\ last.n_tan = 1
            /\ last.n_stress = (IF last.pre_sc = NoneObj THEN 1 ELSE 0)
            /\ Len(last.ret) = 8
            /\ last.ret[1] = "weak_function"
            /\ last.ret[2].kind = "stress"
            /\ last.pre_sc # NoneObj => last.ret[2] = last.pre_sc
            /\ last.pre_sc = NoneObj => last.ret[2] \in last.new
            /\ last.ret[3].kind = "tan_mod" /\ last.ret[3] \in last.new
            /\ last.ret[4] = Field(last.fd, "mtx_f")
            /\ last.ret[5] = Field(last.fd, "det_f")
            /\ last.ret[6] = get_mapping(self[t]).vg
            /\ last.ret[7] = 1
            /\ last.ret[8] = self[t].hyperelastic_mode

\* a tangent pass on a filled stress cache
C5_Witness ==
    IsTangent(last, 1) /\ last.pre_sc # NoneObj /\ last.n_stress = 0

(* C6: a residual pass that returns has run the stress function once and    *)
(* the tangent-modulus function not at all; the new stress is what the      *)
(* stress cache holds afterwards, whatever it held before; the tangent it   *)
(* returns is the zero-filled one-element placeholder, with fmode 0.        *)
C6_ResidualPass ==
    \A t \in Terms :
        IsResidual(last, t) =>
            /\ last.n_stress = 1
            /\ last.n_tan = 0
            /\ last.ret[2].kind = "stress" /\ last.ret[2] \in last.new
            /\ last.ret[2] # last.pre_sc
            /\ stress_cache[t] = last.ret[2]
            /\ last.ret[3] = ZeroPlaceholder
            /\ last.ret[7] = 0

\* a residual pass on a filled stress cache
C6_Witness ==
    IsResidual(last, 1) /\ last.pre_sc # NoneObj /\ stress_cache[1] # last.pre_sc

(* C9: get_fargs with an unsupported (mode, term_mode) combination raises   *)
(* an error that names the term and the offending value (the mode, or the   *)
(* term mode when the mode is 'el_avg' or 'qp'), runs neither the stress    *)
(* nor the tangent-modulus function and leaves the stress cache unchanged.  *)
C9_UnsupportedRaises ==
    (IsFargs(last) /\ ~Supported(last.mode, last.term_mode)) =>
        /\ last.outcome = "raised"
        /\ last.ret = NoRet
        /\ last.err.type = "ValueError"
        /\ last.err.term = self[last.term].name
        /\ IF last.mode \in {"el_avg", "qp"}
           THEN /\ last.err.msg = "unsupported term mode"
                /\ last.err.value = last.term_mode
           ELSE /\ last.err.msg = "unsupported evaluation mode"
                /\ last.err.value = last.mode
        /\ last.n_stress = 0
        /\ last.n_tan = 0
        /\ stress_cache[last.term] = last.pre_sc

\* 'qp' with no term mode, on a filled stress cache
C9_Witness ==
    /\ IsFargs(last) /\ last.mode = "qp" /\ last.term_mode = "None"
    /\ last.outcome = "raised" /\ last.pre_sc # NoneObj

(* C7: get_eval_shape returns (n_el, n_qp', sym, 1), sym the number of       *)
(* independent components of a symmetric dim x dim tensor, n_qp' the        *)
(* quadrature-point count for mode 'qp' and 1 for every other mode; the     *)
(* result is the same for every term_mode and diff_var; dim 3, n_el 10,     *)
(* n_qp 4 give (10, 1, 6, 1) for 'el_avg' and (10, 4, 6, 1) for 'qp'.       *)
SymComponents(dim) ==
    Cardinality({ij \in (1..dim) \X (1..dim) : ij[1] <= ij[2]})

C7_EvalShape ==
    pure.fn = "get_eval_shape" =>
        LET mode == pure.args[1]
            n_el == pure.args[4]
            n_qp == pure.args[5]
            dim  == pure.args[6]
            shape == pure.out.shape
        IN  /\ Len(shape) = 4
            /\ shape[1] = n_el
            /\ mode = "qp" => shape[2] = n_qp
            /\ mode # "qp" => shape[2] = 1
            /\ shape[3] = SymComponents(dim)
            /\ shape[4] = 1
            /\ \A tm \in TermModes, dv \in DiffVars :
                   get_eval_shape(mode, tm, dv, n_el, n_qp, dim, "float64")
                       = pure.out
            /\ (dim = 3 /\ n_el = 10 /\ n_qp = 4 /\ mode = "el_avg") =>
                   shape = <<10, 1, 6, 1>>
            /\ (dim = 3 /\ n_el = 10 /\ n_qp = 4 /\ mode = "qp") =>
                   shape = <<10, 4, 6, 1>>

\* the shape asked for in a mode that is neither 'qp' nor 'el_avg'
C7_Witness ==
    /\ pure.fn = "get_eval_shape"
    /\ pure.args[1] = "weak" /\ pure.args[5] = 4 /\ pure.args[6] = 3
    /\ pure.out.shape = <<10, 1, 6, 1>>

(* C8: when several evaluators run get_family_data concurrently,            *)
(* compute_family_data runs at most once per key, all callers for a key get *)
(* the same object, and the entry a caller got is never replaced.           *)
C8_MissesCoalesced ==
    /\ \A k \in DOMAIN n_computed : n_computed[k] <= 1
    /\ \A a, b \in DOMAIN thr :
           (thr[a].pc = "done" /\ thr[b].pc = "done" /\ thr[a].key = thr[b].key)
               => thr[a].out = thr[b].out
    /\ \A a \in DOMAIN thr :
           thr[a].pc = "done" =>
               evaluate_cache[thr[a].key[1]][thr[a].key[2]][thr[a].key[3]]
                   = thr[a].out

(* C10: integrate with fmode 2 copies the quadrature-point values into the  *)
(* output buffer, does not call the mapping's integrate and returns 0; with *)
(* any other fmode it calls the mapping's integrate once, with that fmode,  *)
(* and returns the status the mapping returned.                             *)
C10_Integrate ==
    pure.fn = "integrate" =>
        LET val_qp    == pure.args[1]
            vg_status == pure.args[2]
            fmode     == pure.args[3]
        IN  IF fmode = 2
            THEN /\ pure.out.out = val_qp
                 /\ pure.out.vg_calls = <<>>
                 /\ pure.out.status = 0
            ELSE /\ pure.out.vg_calls = <<fmode>>
                 /\ pure.out.status = vg_status

\* the mapping failed and the failure came back
C10_Witness ==
    /\ pure.fn = "integrate"
    /\ pure.args[3] # 2 /\ pure.args[2] # 0
    /\ pure.out.status = pure.args[2]

(* C11: get_fargs with mode 'el_avg' or 'qp' and term_mode 'strain' returns  *)
(* the integration adapter with the green_strain field of the FamilyData    *)
(* object the evaluate cache holds for the term's key as quadrature-point   *)
(* values, and runs neither the stress nor the tangent-modulus function.    *)
C11_StrainDirect ==
    (IsFargs(last) /\ last.mode \in {"el_avg", "qp"}
                   /\ last.term_mode = "strain") =>
        /\ last.outcome = "returned"
        /\ Len(last.ret) = 4
        /\ last.ret[1] = "integrate"
        /\ last.ret[2] =
               Field(evaluate_cache[last.key[1]][last.key[2]][last.key[3]],
                     "green_strain")
        /\ last.ret[3] = get_mapping(self[last.term]).vg
        /\ last.n_stress = 0
        /\ last.n_tan = 0
        /\ last.new \subseteq {last.fd}

\* the strain asked for per quadrature point, from a bundle cached before
C11_Witness ==
    /\ IsFargs(last) /\ last.mode = "qp" /\ last.term_mode = "strain"
    /\ last.outcome = "returned" /\ last.n_fd = 0
    /\ last.ret[2] = Field(last.fd, "green_strain")

(* C12: get_fargs with mode 'el_avg' or 'qp' and term_mode 'stress' that    *)
(* returns has run the stress function once and the tangent-modulus         *)
(* function not at all, and returns the integration adapter with the new    *)
(* stress, fmode 1 for 'el_avg' and fmode 2 for 'qp'.                       *)
C12_StressEval ==
    (IsFargs(last) /\ last.mode \in {"el_avg", "qp"}
                   /\ last.term_mode = "stress"
                   /\ last.outcome = "returned") =>
        /\ last.n_stress = 1
        /\ last.n_tan = 0
        /\ Len(last.ret) = 4
        /\ last.ret[1] = "integrate"
        /\ last.ret[2].kind = "stress" /\ last.ret[2] \in last.new
        /\ last.mode = "el_avg" => last.ret[4] = 1
        /\ last.mode = "qp" => last.ret[4] = 2

\* the element-averaged stress
C12_Witness ==
    /\ IsFargs(last) /\ last.mode = "el_avg" /\ last.term_mode = "stress"
    /\ last.outcome = "returned" /\ last.ret[4] = 1

\* what one step may do to the stress slots
C13_SlotStep ==
    \A t \in Terms :
        /\ stress_cache'[t] # stress_cache[t] =>
               /\ IsResidual(last', t)
               /\ stress_cache'[t] = last'.ret[2]
        /\ stress_cache[t] # NoneObj => stress_cache'[t] # NoneObj
        /\ (IsTangent(last', t) /\ stress_cache[t] = NoneObj) =>
               /\ last'.n_stress = 1
               /\ last'.ret[2] \in last'.new
               /\ stress_cache'[t] = NoneObj

(* C13: every term's stress slot is empty after construction; in every step  *)
(* a slot changes only by a residual pass of its term that returns; a       *)
(* tangent pass that finds the slot empty runs the stress function once and *)
(* leaves the slot empty (so each of k such passes in a row runs it again); *)
(* a filled slot is never emptied, not even when the solver advances.       *)
C13_StressSlot ==
    /\ \A t \in Terms : stress_cache[t] = NoneObj
    /\ [][C13_SlotStep]_vars

\* a tangent pass on an empty slot, at a later iterate, with the other term's
\* slot filled
C13_Witness ==
    /\ IsTangent(last, 1) /\ last.pre_sc = NoneObj /\ last.n_stress = 1
    /\ stress_cache[1] = NoneObj /\ stress_cache[2] # NoneObj
    /\ iterate > 0

(* C14: a get_family_data or get_fargs call of any term leaves every entry  *)
(* the evaluate cache held before the call in place, bound to the same      *)
(* FamilyData object; the cache changes only by gaining entries.            *)
C14_CacheOnlyGrows ==
    last.op \in {"get_family_data", "get_fargs"} =>
        /\ DOMAIN last.pre_ec \subseteq DOMAIN evaluate_cache
        /\ \A c \in DOMAIN last.pre_ec :
               /\ DOMAIN last.pre_ec[c] \subseteq DOMAIN evaluate_cache[c]
               /\ \A st \in DOMAIN last.pre_ec[c] :
                      /\ DOMAIN last.pre_ec[c][st]
                             \subseteq DOMAIN evaluate_cache[c][st]
                      /\ \A k \in DOMAIN last.pre_ec[c][st] :
                             evaluate_cache[c][st][k] = last.pre_ec[c][st][k]

\* a failing get_fargs call of the second term on the entry the first made
C14_Witness ==
    /\ IsFargs(last) /\ last.term = 2 /\ last.outcome = "raised"
    /\ last.key[1] \in DOMAIN last.pre_ec
    /\ last.key[2] \in DOMAIN last.pre_ec[last.key[1]]
    /\ last.key[3] \in DOMAIN last.pre_ec[last.key[1]][last.key[2]]
    /\ evaluate_cache = last.pre_ec

\* the cache holds an entry under (cache_name, step, data_key) = k
HasEntry(ec, k) ==
    /\ k[1] \in DOMAIN ec
    /\ k[2] \in DOMAIN ec[k[1]]
    /\ k[3] \in DOMAIN ec[k[1]][k[2]]

(* C15: a get_family_data call of any term hits exactly when the cache      *)
(* holds an entry under the call's cache_name, the term's derivative step,  *)
(* its mapping key and its derivative flag, and then returns that entry; a  *)
(* request differing in any of the four misses and computes its own. Every  *)
(* entry is the bundle computed for its own key, and every key requested    *)
(* since the last reset was computed once, whichever terms asked.           *)
C15_SharedAlongKey ==
    last.op = "get_family_data" =>
        LET s == self[last.term]
            k == <<last.cache_name, s.arg_steps,
                   <<s.map_key, s.arg_derivatives>>>>
        IN  /\ last.key = k
            /\ last.n_fd = (IF HasEntry(last.pre_ec, k) THEN 0 ELSE 1)
            /\ HasEntry(last.pre_ec, k) =>
                   last.fd = last.pre_ec[k[1]][k[2]][k[3]]
            /\ HasEntry(evaluate_cache, k)
            /\ evaluate_cache[k[1]][k[2]][k[3]] = last.fd
            /\ \A c \in DOMAIN evaluate_cache :
                   \A st \in DOMAIN evaluate_cache[c] :
                       \A dk \in DOMAIN evaluate_cache[c][st] :
                           evaluate_cache[c][st][dk].owner = <<c, st, dk>>
            /\ \A k2 \in DOMAIN n_computed : n_computed[k2] = 1

\* the second term gets the bundle of a key both terms resolve to, while the
\* cache also holds bundles of other keys
C15_Witness ==
    /\ last.op = "get_family_data" /\ last.term = 2 /\ last.n_fd = 0
    /\ self[2].arg_steps = self[1].arg_steps
    /\ self[2].map_key = self[1].map_key
    /\ self[2].arg_derivatives = self[1].arg_derivatives
    /\ Cardinality(DOMAIN n_computed) >= 2

\* what a step that is an 'el_avg' / 'qp' evaluation, and one that is a
\* tangent pass, may do with the stress slots
C16_EvalStep ==
    /\ (IsFargs(last') /\ last'.mode \in {"el_avg", "qp"}) =>
           stress_cache' = stress_cache
    /\ \A t \in Terms :
           (IsTangent(last', t) /\ stress_cache[t] # NoneObj) =>
               /\ last'.ret[2] = stress_cache[t]
               /\ last'.n_stress = 0

(* C16: no get_fargs call in mode 'el_avg' or 'qp' (term mode 'strain',     *)
(* 'stress' or unsupported, returning or raising) changes the stress slot   *)
(* of any term, and a tangent pass on a filled slot returns what the slot   *)
(* holds without running the stress function; so such evaluations between a *)
(* residual and a tangent pass change neither the stress the tangent pass   *)
(* returns nor its number of stress-function calls.                         *)
C16_EvalKeepsStress == [][C16_EvalStep]_vars

\* a stress evaluation right after a residual pass of the same term, the slot
\* still holding the residual's stress
C16_Witness ==
    /\ IsFargs(last) /\ last.mode = "qp" /\ last.term_mode = "stress"
    /\ last.outcome = "returned"
    /\ prev.residual /\ prev.term = last.term
    /\ stress_cache[last.term] = prev.stress
    /\ last.ret[2] # prev.stress

\* the get_fargs branches that call compute_stress or compute_tan_mod
UsesMaterial(mode, term_mode) ==
    \/ mode = "weak"
    \/ mode \in {"el_avg", "qp"} /\ term_mode = "stress"

(* C17: when the FamilyData lacks a name of the term's family_data_names, a  *)
(* get_fargs call that needs the stress or the tangent modulus raises       *)
(* 'missing family data!' without having run the stress or the              *)
(* tangent-modulus function, returns nothing and leaves the term's stress   *)
(* slot as it was before the call (also in a residual pass, also when the   *)
(* slot was filled); when no name is absent the call returns.               *)
C17_MissingFamilyData ==
    (IsFargs(last) /\ UsesMaterial(last.mode, last.term_mode)) =>
        LET names  == self[last.term].family_data_names
            absent == {i \in DOMAIN names : names[i] \notin last.fd.fields}
        IN  IF absent # {}
            THEN /\ last.outcome = "raised"
                 /\ last.err.type = "ValueError"
                 /\ last.err.msg = "missing family data!"
                 /\ last.ret = NoRet
                 /\ last.n_stress = 0
                 /\ last.n_tan = 0
                 /\ stress_cache[last.term] = last.pre_sc
            ELSE /\ last.outcome = "returned"
                 /\ last.n_stress + last.n_tan >= 1

\* a residual pass that fails on a filled stress slot
C17_Witness ==
    /\ IsFargs(last) /\ last.mode = "weak" /\ last.diff_var = "None"
    /\ last.outcome = "raised" /\ last.err.msg = "missing family data!"
    /\ last.pre_sc # NoneObj /\ stress_cache[last.term] = last.pre_sc

(* C18: DeformationGradientTerm.get_fargs passes term_mode on and maps mode  *)
(* 'eval' to fmode 0, 'el_avg' to 1, 'qp' to 2 and every other mode, None   *)
(* included, to 1, never raising; function, given fmode 2, then copies the  *)
(* per-quadrature-point array to the output unreduced, does not call the    *)
(* mapping's integrate and returns 0, and given any other fmode calls the   *)
(* mapping's integrate once with it and returns the status it returned.     *)
C18_DefGradFmode ==
    pure.fn = "ev_def_grad" =>
        LET mode      == pure.args[1]
            term_mode == pure.args[2]
            vg_status == pure.args[6]
            fargs     == pure.out.fargs
            res       == pure.out.res
        IN  /\ Len(fargs) = 5
            /\ fargs[4] = term_mode
            /\ mode = "eval" => fargs[5] = 0
            /\ mode = "el_avg" => fargs[5] = 1
            /\ mode = "qp" => fargs[5] = 2
            /\ mode \notin {"eval", "el_avg", "qp"} => fargs[5] = 1
            /\ ~res.raised
            /\ IF fargs[5] = 2
               THEN /\ res.out = res.out_qp
                    /\ res.out.reduced = -1
                    /\ res.status = 0
                    /\ res.vg_calls = <<>>
               ELSE /\ res.vg_calls = <<fargs[5]>>
                    /\ res.status = vg_status

\* the term evaluated with no mode at all, the mapping failing
C18_Witness ==
    /\ pure.fn = "ev_def_grad" /\ pure.args[1] = "None"
    /\ pure.out.fargs[5] = 1
    /\ pure.args[6] # 0 /\ pure.out.res.status = pure.args[6]

(* C19: DeformationGradientTerm.get_eval_shape returns (n_el, n_qp', 1, 1)  *)
(* for term_mode 'jacobian' and (n_el, n_qp', dim, dim) for every other     *)
(* term mode, n_qp' being n_qp for mode 'qp' and 1 otherwise; the trailing  *)
(* dimension d of the buffer function allocates equals the two trailing     *)
(* dimensions get_eval_shape declares, and in mode 'qp' that buffer has the *)
(* shape of the output.                                                     *)
C19_DefGradShape ==
    pure.fn = "ev_def_grad" =>
        LET mode      == pure.args[1]
            term_mode == pure.args[2]
            n_el      == pure.args[3]
            n_qp      == pure.args[4]
            dim       == pure.args[5]
            shape     == pure.out.shape
            res       == pure.out.res
        IN  /\ Len(shape) = 4
            /\ shape[1] = n_el
            /\ shape[2] = (IF mode = "qp" THEN n_qp ELSE 1)
            /\ term_mode = "jacobian" => (shape[3] = 1 /\ shape[4] = 1)
            /\ term_mode # "jacobian" => (shape[3] = dim /\ shape[4] = dim)
            /\ res.d = (IF term_mode = "jacobian" THEN 1 ELSE dim)
            /\ res.d = shape[3] /\ res.d = shape[4]
            /\ mode = "qp" => res.out_qp.shape = shape

\* the jacobian per quadrature point in three dimensions
C19_Witness ==
    /\ pure.fn = "ev_def_grad"
    /\ pure.args[1] = "qp" /\ pure.args[2] = "jacobian" /\ pure.args[5] = 3
    /\ pure.out.shape = <<pure.args[3], pure.args[4], 1, 1>>
    /\ pure.out.res.out_qp.shape = pure.out.shape

====
